---- MODULE Spec2Model ----
(***************************************************************************)
(* State-machine model of mdsapt/sapt.py: the SAPT base class and the two  *)
(* orchestrators TrajectorySAPT (driven by MDAnalysis' AnalysisBase.run)   *)
(* and DockingSAPT (driven by its own run).                                *)
(*                                                                         *)
(* Text is modelled as a sequence of lines, each line the tuple of its     *)
(* fields: s + "\n--\n" + t is s \o << <<"--">> >> \o t.                   *)
(* A formatted string f'{a}-{b}' is the record of its pieces.              *)
(* Energies are integers; the conversion factor 627.509 is kept in         *)
(* thousandths (627509), so a table value is in units of 1e-3 kcal/mol.    *)
(*                                                                         *)
(* An instance's __dict__ is the variable attrs (the names that have been  *)
(* assigned); reading a name that is not in attrs is an AttributeError.    *)
(***************************************************************************)
EXTENDS Integers, Sequences, FiniteSets, TLC

\* ------------------------------------------------------------------ bounds
MaxKey == 2
MaxPairs == 2
MaxFrames == 2
MaxPoses == 2
MaxExtra == 1

\* --------------------------------------------------------- program constants
mht_to_kcalmol == 627509

Keys == 1..MaxKey
Pairs == Keys \X Keys
PairLists == UNION {[1..n -> Pairs] : n \in 0..MaxPairs}
PoseKeys == 1..MaxPoses
Modes == {"merged", "separate", "unset", "bogus"}

TrajectoryConfigs ==
    [type : {"trajectory"}, mode : {"unset"}, pairs : PairLists,
     nframes : 0..MaxFrames, poses : {{}}, save_output : BOOLEAN]

DockingConfigs ==
    [type : {"docking"}, mode : Modes, pairs : {<<>>},
     nframes : {0}, poses : SUBSET PoseKeys, save_output : BOOLEAN]

Configs == TrajectoryConfigs \cup DockingConfigs

SaptVars == <<"SAPT TOTAL ENERGY", "SAPT ELST ENERGY", "SAPT EXCH ENERGY",
              "SAPT IND ENERGY", "SAPT DISP ENERGY">>

TrajectoryCol == <<"residues", "time", "total", "electrostatic",
                   "exchange", "induction", "dispersion">>

DockingCol == <<"structure", "time", "total", "electrostatic",
                "exchange", "induction", "dispersion">>

Range(s) == {s[i] : i \in 1..Len(s)}

NoError == [kind |-> "none", line |-> 0]
NoCall == [active |-> FALSE]

\* -------------------------------------------------------- collaborators
\* config.analysis.get_selections(): the residue ids the pairs refer to.
GetSelections(pairs) == {pairs[i][1] : i \in 1..Len(pairs)} \cup
                        {pairs[i][2] : i \in 1..Len(pairs)}

\* ts.time of frame f (0-based) of the trajectory: strictly increasing.
FrameTime(f) == 5 + 10 * f

\* Atoms of the selection "resid k and not (water)" at iteration step s:
\* one heavy atom whose coordinates move with the step.
SelectAtoms(k, s) == << [element |-> "C", x |-> 10 * k + s, y |-> k, z |-> s] >>

\* Optimizer.rebuild_resid: adds the missing proton.
RebuildResid(k, resid) ==
    resid \o << [element |-> "H", x |-> resid[1].x + 1, y |-> resid[1].y, z |-> resid[1].z] >>

\* Chem.GetFormalCharge / get_spin_multiplicity of the rebuilt residue.
FormalCharge(k, resid) == k - 1
SpinMultiplicity(k, resid) == 1 + ((k - 1) % 2)

\* The solver's result namespace after psi4.energy on a dimer text: five
\* pairwise different native values, total not the sum of the other four.
CoordSum(input) ==
    LET X(i) == IF "x" \in DOMAIN input[i] THEN input[i].x ELSE 0
        S[i \in 0..Len(input)] == IF i = 0 THEN 0 ELSE S[i - 1] + X(i)
    IN S[Len(input)]

Psi4Energy(input) ==
    LET c == CoordSum(input)
    IN [v \in Range(SaptVars) |->
          CASE v = "SAPT TOTAL ENERGY" -> -(7 + c)
            [] v = "SAPT ELST ENERGY"  -> -(300 + c)
            [] v = "SAPT EXCH ENERGY"  -> 500 + c
            [] v = "SAPT IND ENERGY"   -> -(100 + c)
            [] v = "SAPT DISP ENERGY"  -> -(200 + c)]

\* ------------------------------------------------------------ SAPT (base)
\* get_psi_mol: "<charge> <multiplicity>" then one line per atom.
get_psi_mol(k, resid) ==
    LET rebuilt == RebuildResid(k, resid)
    IN << [charge |-> FormalCharge(k, rebuilt),
           multiplicity |-> SpinMultiplicity(k, rebuilt)] >> \o rebuilt

\* Variant of calc_SAPT_result: the electrostatic and exchange variables are
\* read into each other's slot.
calc_SAPT_result_crossed(vars) ==
    [v \in Range(SaptVars) |->
        CASE v = "SAPT ELST ENERGY" -> vars["SAPT EXCH ENERGY"] * mht_to_kcalmol
          [] v = "SAPT EXCH ENERGY" -> vars["SAPT ELST ENERGY"] * mht_to_kcalmol
          [] OTHER -> vars[v] * mht_to_kcalmol]

\* calc_SAPT, lines 99-114: the five solver variables scaled to kcal/mol.
calc_SAPT_result(vars) == [v \in Range(SaptVars) |-> vars[v] * mht_to_kcalmol]

\* Variant of calc_SAPT_output: the output file is set whatever the flag says.
calc_SAPT_output_always(save, filename) == [set |-> TRUE, name |-> filename]

\* calc_SAPT, lines 93-94: the output file is set only when saving is on.
calc_SAPT_output(save, filename) ==
    IF save THEN [set |-> TRUE, name |-> filename] ELSE [set |-> FALSE]

\* Variant of DimerCoords: the second key's block is placed first.
DimerCoords_swapped(ga, gb) ==
    gb \o << [text |-> "--"] >> \o ga \o << [text |-> "units angstrom"] >>

\* xyz_dict[pair[0]] + '\n--\n' + xyz_dict[pair[1]] + '\nunits angstrom'
DimerCoords(ga, gb) == ga \o << [text |-> "--"] >> \o gb \o << [text |-> "units angstrom"] >>

\* Variant of PairLabel: the keys are written in reverse order.
PairLabel_swapped(pair) == [first |-> pair[2], sep |-> "-", second |-> pair[1]]

\* f'{pair[0]}-{pair[1]}'
PairLabel(pair) == [first |-> pair[1], sep |-> "-", second |-> pair[2]]

\* f'sapt_{pair[0]}-{pair[1]}_{step}.out'
OutName(pair, step) ==
    [prefix |-> "sapt_", first |-> pair[1], sep |-> "-", second |-> pair[2],
     sep2 |-> "_", step |-> step, suffix |-> ".out"]

\* result = [label, step] + [sapt[x] for x in the five names]
ResultList(pair, step, sapt) ==
    [r \in 1..7 |-> IF r = 1 THEN PairLabel(pair)
                    ELSE IF r = 2 THEN step ELSE sapt[SaptVars[r - 2]]]

\* Variant of AppendResult: insert(0, ...) instead of append.
AppendResult_front(rd, c, result) ==
    [x \in DOMAIN rd |->
        LET rs == {r \in 1..Len(result) : c[r] = x}
        IN IF rs = {} THEN rd[x] ELSE <<result[CHOOSE r \in rs : TRUE]>> \o rd[x]]

\* Variant of AppendResult: the loop stops after the label and the time
\* (range(2)), leaving the five energy columns one entry short.
AppendResult_partial(rd, c, result) ==
    [x \in DOMAIN rd |->
        LET rs == {r \in 1..2 : c[r] = x}
        IN IF rs = {} THEN rd[x] ELSE Append(rd[x], result[CHOOSE r \in rs : TRUE])]

\* for r in range(len(result)): self._res_dict[self._col[r]].append(result[r])
AppendResult(rd, c, result) ==
    [x \in DOMAIN rd |->
        LET rs == {r \in 1..Len(result) : c[r] = x}
        IN IF rs = {} THEN rd[x] ELSE Append(rd[x], result[CHOOSE r \in rs : TRUE])]

\* {x: [] for x in self._col}
EmptyResDict(c) == [x \in Range(c) |-> <<>>]

\* pd.DataFrame(columns=self._col): the schema and no rows.
EmptyFrame(c) == [columns |-> c, data |-> [x \in Range(c) |-> <<>>]]

\* self.results[k] = self._res_dict[k] for every column: the lists are copied.
FillFrame(df, c, rd) == [df EXCEPT !.data = [x \in DOMAIN df.data |->
                                                IF x \in Range(c) THEN rd[x] ELSE df.data[x]]]

\* ------------------------------------------------------------------ state
VARIABLES cls, cfg, pc, attrs, sel, sel_pairs, col, res_dict, results, ts,
          frame, xyz_dict, pidx, call, psi_vars, err, direct, extra, calls,
          ens, key, todo, visited, prepares, builds

vars == <<cls, cfg, pc, attrs, sel, sel_pairs, col, res_dict, results, ts,
          frame, xyz_dict, pidx, call, psi_vars, err, direct, extra, calls,
          ens, key, todo, visited, prepares, builds>>

dock_vars == <<ens, key, todo, visited, prepares>>

NoXyz == [k \in {} |-> <<>>]
NoFrame == [columns |-> <<>>, data |-> [x \in {} |-> <<>>]]
NoBuilds == [k \in {} |-> 0]

\* The state before the constructor has run: nothing has been assigned.
Blank ==
    /\ pc = "new"
    /\ attrs = {}
    /\ sel = {}
    /\ sel_pairs = <<>>
    /\ col = <<>>
    /\ res_dict = [x \in {} |-> <<>>]
    /\ results = NoFrame
    /\ ts = 0
    /\ frame = 0
    /\ xyz_dict = NoXyz
    /\ pidx = 0
    /\ call = NoCall
    /\ psi_vars = [v \in Range(SaptVars) |-> 0]
    /\ err = NoError
    /\ direct = FALSE
    /\ extra = 0
    /\ calls = <<>>
    /\ ens = {}
    /\ key = 0
    /\ todo = {}
    /\ visited = <<>>
    /\ prepares = 0
    /\ builds = NoBuilds

Init ==
    /\ cls \in {"TrajectorySAPT", "DockingSAPT"}
    /\ cfg \in Configs
    /\ Blank

\* What raise ValidationError("...") throws: pydantic's ValidationError cannot
\* be built from a message alone on every pydantic release.
RaisedValidation == {"ValidationError", "TypeError"}

Raise(kind, line) ==
    /\ err' = [kind |-> kind, line |-> line]
    /\ call' = NoCall

\* SAPT.__init__, lines 57-64.
SAPT_attrs == {"_opt", "_cfg", "_mem", "_save_psi_out", "_method", "_basis", "_settings"}

\* --------------------------------------------------------- TrajectorySAPT
\* Variant of TrajectorySAPT_init: the analysis type is not checked.
TrajectorySAPT_init_unchecked ==
    /\ pc = "new"
    /\ cls = "TrajectorySAPT"
    /\ sel' = GetSelections(cfg.pairs)
    /\ sel_pairs' = cfg.pairs
    /\ attrs' = attrs \cup {"_unv", "_sel", "_sel_pairs", "_trajectory"} \cup SAPT_attrs
    /\ pc' = "constructed"
    /\ UNCHANGED <<cls, cfg, col, res_dict, results, ts, frame, xyz_dict, pidx,
                   psi_vars, direct, extra, calls, err, call>>
    /\ UNCHANGED dock_vars
    /\ UNCHANGED builds

\* TrajectorySAPT.__init__, lines 143-158.
TrajectorySAPT_init ==
    /\ pc = "new"
    /\ cls = "TrajectorySAPT"
    /\ IF cfg.type # "trajectory"
       THEN /\ \E k \in RaisedValidation : Raise(k, 146)
            /\ pc' = "init_failed"
            /\ UNCHANGED <<attrs, sel, sel_pairs>>
       ELSE /\ sel' = GetSelections(cfg.pairs)
            /\ sel_pairs' = cfg.pairs
            /\ attrs' = attrs \cup {"_unv", "_sel", "_sel_pairs", "_trajectory"} \cup SAPT_attrs
            /\ pc' = "constructed"
            /\ UNCHANGED <<err, call>>
    /\ UNCHANGED <<cls, cfg, col, res_dict, results, ts, frame, xyz_dict, pidx,
                   psi_vars, direct, extra, calls>>
    /\ UNCHANGED dock_vars
    /\ UNCHANGED builds

\* Variant of run_prepare: a table that already exists is kept, only the
\* accumulator starts over.
run_prepare_keep ==
    /\ cls = "TrajectorySAPT"
    /\ pc \in {"constructed", "concluded", "failed"}
    /\ col' = TrajectoryCol
    /\ results' = IF "results" \in attrs THEN results ELSE EmptyFrame(TrajectoryCol)
    /\ res_dict' = EmptyResDict(TrajectoryCol)
    /\ attrs' = attrs \cup {"_col", "results", "_res_dict"}
    /\ frame' = 0
    /\ pc' = "frames"
    /\ err' = NoError
    /\ direct' = FALSE
    /\ extra' = 0
    /\ calls' = <<>>
    /\ xyz_dict' = NoXyz
    /\ pidx' = 0
    /\ UNCHANGED <<cls, cfg, sel, sel_pairs, ts, call, psi_vars>>
    /\ UNCHANGED dock_vars
    /\ builds' = NoBuilds

\* TrajectorySAPT._prepare, lines 160-164, as AnalysisBase.run calls it first.
run_prepare ==
    /\ cls = "TrajectorySAPT"
    /\ pc \in {"constructed", "concluded", "failed"}
    /\ col' = TrajectoryCol
    /\ results' = EmptyFrame(TrajectoryCol)
    /\ res_dict' = EmptyResDict(TrajectoryCol)
    /\ attrs' = attrs \cup {"_col", "results", "_res_dict"}
    /\ frame' = 0
    /\ pc' = "frames"
    /\ err' = NoError
    /\ direct' = FALSE
    /\ extra' = 0
    /\ calls' = <<>>
    /\ xyz_dict' = NoXyz
    /\ pidx' = 0
    /\ UNCHANGED <<cls, cfg, sel, sel_pairs, ts, call, psi_vars>>
    /\ UNCHANGED dock_vars
    /\ builds' = NoBuilds

\* AnalysisBase.run: the next frame of the trajectory becomes self._ts and
\* _single_frame starts (line 167).
run_next_frame ==
    /\ pc = "frames"
    /\ frame < cfg.nframes
    /\ ts' = frame
    /\ attrs' = attrs \cup {"_ts"}
    /\ frame' = frame + 1
    /\ xyz_dict' = NoXyz
    /\ pc' = "build"
    /\ UNCHANGED <<cls, cfg, sel, sel_pairs, col, res_dict, results, pidx, call,
                   psi_vars, err, direct, extra, calls>>
    /\ UNCHANGED dock_vars
    /\ builds' = NoBuilds

\* TrajectorySAPT._conclude, lines 182-184, after the last frame.
run_conclude ==
    /\ pc = "frames"
    /\ frame = cfg.nframes
    /\ results' = FillFrame(results, col, res_dict)
    /\ pc' = "concluded"
    /\ UNCHANGED <<cls, cfg, attrs, sel, sel_pairs, col, res_dict, ts, frame,
                   xyz_dict, pidx, call, psi_vars, err, direct, extra, calls>>
    /\ UNCHANGED dock_vars
    /\ UNCHANGED builds

\* Variant of single_frame_build: the blocks are built inside the pair loop,
\* so a build can fail after earlier pairs of the frame were evaluated.
single_frame_build_lazy ==
    /\ \/ /\ pc = "build"
          /\ xyz_dict' = [k \in sel |-> get_psi_mol(k, SelectAtoms(k, ts))]
          /\ builds' = [k \in sel |-> 1]
          /\ pidx' = 1
          /\ pc' = "pairs"
          /\ UNCHANGED <<err, call>>
       \/ /\ pc = "pairs"
          /\ pidx <= Len(sel_pairs)
          /\ Raise("StructureError", 69)
          /\ pc' = "failed"
          /\ UNCHANGED <<xyz_dict, pidx, builds>>
    /\ UNCHANGED <<cls, cfg, attrs, sel, sel_pairs, col, res_dict, results, ts,
                   frame, psi_vars, direct, extra, calls>>
    /\ UNCHANGED dock_vars

\* Variant of single_frame_build: the blocks of the first frame are kept and
\* reused for every later frame.
single_frame_build_cached ==
    /\ pc = "build"
    /\ \/ /\ xyz_dict' = [k \in sel |-> get_psi_mol(k, SelectAtoms(k, 0))]
          /\ builds' = [k \in sel |-> IF ts = 0 THEN 1 ELSE 0]
          /\ pidx' = 1
          /\ pc' = "pairs"
          /\ UNCHANGED <<err, call>>
       \/ /\ sel # {}
          /\ Raise("StructureError", 69)
          /\ pc' = "failed"
          /\ UNCHANGED <<xyz_dict, pidx, builds>>
    /\ UNCHANGED <<cls, cfg, attrs, sel, sel_pairs, col, res_dict, results, ts,
                   frame, psi_vars, direct, extra, calls>>
    /\ UNCHANGED dock_vars

\* Line 167: the dict comprehension calls get_psi_mol for every key of
\* self._sel at the current frame; it yields the whole xyz_dict, or one of
\* the calls raises and the partial dictionary is lost with the frame.
\* builds counts the get_psi_mol calls behind the blocks of xyz_dict.
single_frame_build ==
    /\ pc = "build"
    /\ \/ /\ xyz_dict' = [k \in sel |-> get_psi_mol(k, SelectAtoms(k, ts))]
          /\ builds' = [k \in sel |-> 1]
          /\ pidx' = 1
          /\ pc' = "pairs"
          /\ UNCHANGED <<err, call>>
       \/ /\ sel # {}
          /\ Raise("StructureError", 69)
          /\ pc' = "failed"
          /\ UNCHANGED <<xyz_dict, pidx, builds>>
    /\ UNCHANGED <<cls, cfg, attrs, sel, sel_pairs, col, res_dict, results, ts,
                   frame, psi_vars, direct, extra, calls>>
    /\ UNCHANGED dock_vars

\* The invocation record of calc_SAPT(coords, filename), lines 88-97.
Invocation(pair, step, coords, save) ==
    [active |-> TRUE, input |-> coords, filename |-> OutName(pair, step),
     output_file |-> calc_SAPT_output(save, OutName(pair, step)),
     pair |-> pair, step |-> step, index |-> pidx]

\* Variant of single_frame_call: the invocations of all remaining pairs of
\* the frame are submitted together, without waiting for the earlier ones.
single_frame_call_batch ==
    /\ pc = "pairs"
    /\ pidx <= Len(sel_pairs)
    /\ "_ts" \in attrs
    /\ LET inv(j) == Invocation(sel_pairs[j], FrameTime(ts),
                                DimerCoords(xyz_dict[sel_pairs[j][1]],
                                            xyz_dict[sel_pairs[j][2]]),
                                cfg.save_output)
       IN /\ call' = inv(pidx)
          /\ calls' = calls \o [j \in 1..(Len(sel_pairs) - pidx + 1) |-> inv(pidx + j - 1)]
    /\ pc' = "solver"
    /\ UNCHANGED <<cls, cfg, attrs, sel, sel_pairs, col, res_dict, results, ts,
                   frame, xyz_dict, pidx, psi_vars, direct, extra, err>>
    /\ UNCHANGED dock_vars
    /\ UNCHANGED builds

\* Lines 168-173 and 88-97: the dimer text of the next pair is assembled and
\* handed to the solver.
single_frame_call ==
    /\ pc = "pairs"
    /\ pidx <= Len(sel_pairs)
    /\ IF "_ts" \notin attrs
       THEN /\ Raise("AttributeError", 173)
            /\ pc' = "failed"
            /\ UNCHANGED calls
       ELSE LET pair == sel_pairs[pidx]
                coords == DimerCoords(xyz_dict[pair[1]], xyz_dict[pair[2]])
            IN /\ call' = Invocation(pair, FrameTime(ts), coords, cfg.save_output)
               /\ calls' = Append(calls, call')
               /\ pc' = "solver"
               /\ UNCHANGED err
    /\ UNCHANGED <<cls, cfg, attrs, sel, sel_pairs, col, res_dict, results, ts,
                   frame, xyz_dict, pidx, psi_vars, direct, extra>>
    /\ UNCHANGED dock_vars
    /\ UNCHANGED builds

\* Variant of calc_SAPT_return: the table shares the accumulator's lists, so
\* the appended row shows in results as well.
calc_SAPT_return_shared ==
    /\ pc = "solver"
    /\ psi_vars' = Psi4Energy(call.input)
    /\ LET sapt == calc_SAPT_result(psi_vars')
           result == ResultList(sel_pairs[pidx], FrameTime(ts), sapt)
       IN /\ res_dict' = AppendResult(res_dict, col, result)
          /\ results' = [results EXCEPT !.data = AppendResult(results.data, col, result)]
    /\ call' = NoCall
    /\ pidx' = pidx + 1
    /\ pc' = "pairs"
    /\ UNCHANGED <<cls, cfg, attrs, sel, sel_pairs, col, ts, frame,
                   xyz_dict, err, direct, extra, calls>>
    /\ UNCHANGED dock_vars
    /\ UNCHANGED builds

\* Lines 97-114 and 174-180: the solver returns, its variables are read and
\* scaled, and the row is appended.
calc_SAPT_return ==
    /\ pc = "solver"
    /\ psi_vars' = Psi4Energy(call.input)
    /\ LET sapt == calc_SAPT_result(psi_vars')
           result == ResultList(sel_pairs[pidx], FrameTime(ts), sapt)
       IN res_dict' = AppendResult(res_dict, col, result)
    /\ call' = NoCall
    /\ pidx' = pidx + 1
    /\ pc' = "pairs"
    /\ UNCHANGED <<cls, cfg, attrs, sel, sel_pairs, col, results, ts, frame,
                   xyz_dict, err, direct, extra, calls>>
    /\ UNCHANGED dock_vars
    /\ UNCHANGED builds

\* Variant of calc_SAPT_raise: the failure handler starts the accumulator over.
calc_SAPT_raise_reset ==
    /\ pc = "solver"
    /\ Raise("SolverError", 97)
    /\ pc' = "failed"
    /\ res_dict' = EmptyResDict(col)
    /\ UNCHANGED <<cls, cfg, attrs, sel, sel_pairs, col, results, ts,
                   frame, xyz_dict, pidx, psi_vars, direct, extra, calls>>
    /\ UNCHANGED dock_vars
    /\ UNCHANGED builds

\* Variant of calc_SAPT_raise: the failure is caught and the same pair is
\* tried again.
calc_SAPT_raise_retry ==
    /\ pc = "solver"
    /\ call' = NoCall
    /\ pc' = "pairs"
    /\ UNCHANGED <<cls, cfg, attrs, sel, sel_pairs, col, res_dict, results, ts,
                   frame, xyz_dict, pidx, psi_vars, direct, extra, calls, err>>
    /\ UNCHANGED dock_vars
    /\ UNCHANGED builds

\* Lines 88-97: psi4.geometry or psi4.energy raises; nothing catches it.
calc_SAPT_raise ==
    /\ pc = "solver"
    /\ Raise("SolverError", 97)
    /\ pc' = "failed"
    /\ UNCHANGED <<cls, cfg, attrs, sel, sel_pairs, col, res_dict, results, ts,
                   frame, xyz_dict, pidx, psi_vars, direct, extra, calls>>
    /\ UNCHANGED dock_vars
    /\ UNCHANGED builds

\* The pair loop of _single_frame is exhausted: back to the caller.
single_frame_end ==
    /\ pc = "pairs"
    /\ pidx > Len(sel_pairs)
    /\ pc' = IF direct THEN "concluded" ELSE "frames"
    /\ UNCHANGED <<cls, cfg, attrs, sel, sel_pairs, col, res_dict, results, ts,
                   frame, xyz_dict, pidx, call, psi_vars, err, direct, extra, calls>>
    /\ UNCHANGED dock_vars
    /\ UNCHANGED builds

\* _single_frame called on the object after its run has concluded; self._ts
\* is the reader's timestep, wherever the trajectory stands by then.
single_frame_again ==
    /\ cls = "TrajectorySAPT"
    /\ pc = "concluded"
    /\ extra < MaxExtra
    /\ extra' = extra + 1
    /\ direct' = TRUE
    /\ IF cfg.nframes > 0 THEN ts' \in 0..(cfg.nframes - 1) ELSE ts' = ts
    /\ xyz_dict' = NoXyz
    /\ pc' = "build"
    /\ UNCHANGED <<cls, cfg, attrs, sel, sel_pairs, col, res_dict, results,
                   frame, pidx, call, psi_vars, err, calls>>
    /\ UNCHANGED dock_vars
    /\ builds' = NoBuilds

\* ------------------------------------------------------------ DockingSAPT
\* DockingSAPT.__init__, lines 194-214.  Line 213 reads self._cfg, which only
\* SAPT.__init__ (called on line 214) assigns.
DockingSAPT_init ==
    /\ pc = "new"
    /\ cls = "DockingSAPT"
    /\ IF cfg.type # "docking"
       THEN /\ \E k \in RaisedValidation : Raise(k, 197)
            /\ UNCHANGED <<attrs, ens>>
       ELSE IF cfg.mode \in {"merged", "separate"}
       THEN /\ ens' = cfg.poses
            /\ attrs' = attrs \cup {"_ens"}
            /\ IF "_cfg" \in attrs'
               THEN FALSE
               ELSE Raise("AttributeError", 213)
       ELSE /\ \E k \in RaisedValidation : Raise(k, 208)
            /\ UNCHANGED <<attrs, ens>>
    /\ pc' = "init_failed"
    /\ UNCHANGED <<cls, cfg, sel, sel_pairs, col, res_dict, results, ts, frame,
                   xyz_dict, pidx, psi_vars, direct, extra, calls>>
    /\ UNCHANGED <<key, todo, visited, prepares>>
    /\ UNCHANGED builds

\* DockingSAPT.run, lines 248-249: the loop over self._ens.keys() is set up.
dock_run_start ==
    /\ cls = "DockingSAPT"
    /\ pc \in {"constructed", "concluded", "failed"}
    /\ todo' = ens
    /\ visited' = <<>>
    /\ prepares' = 0
    /\ err' = NoError
    /\ pc' = "poses"
    /\ UNCHANGED <<cls, cfg, attrs, sel, sel_pairs, col, res_dict, results, ts,
                   frame, xyz_dict, pidx, call, psi_vars, direct, extra, calls,
                   ens, key>>
    /\ UNCHANGED builds

\* Variant of dock_run_next: the iterator drops a second key while advancing.
dock_run_next_skip ==
    /\ pc = "poses"
    /\ \E k \in todo :
          /\ key' = k
          /\ todo' = IF todo = {k} THEN {} ELSE todo \ {k, CHOOSE j \in todo : j # k}
          /\ visited' = Append(visited, k)
    /\ col' = DockingCol
    /\ results' = EmptyFrame(DockingCol)
    /\ res_dict' = EmptyResDict(DockingCol)
    /\ prepares' = prepares + 1
    /\ attrs' = attrs \cup {"_key", "_col", "results", "_res_dict"}
    /\ xyz_dict' = NoXyz
    /\ pc' = "dock_build"
    /\ UNCHANGED <<cls, cfg, sel, sel_pairs, ts, frame, pidx, call, psi_vars,
                   err, direct, extra, calls, ens>>
    /\ UNCHANGED builds

\* Lines 249-251 and 216-220: the next key of the ensemble becomes self._key,
\* _prepare runs, and _single_system is entered.
dock_run_next ==
    /\ pc = "poses"
    /\ \E k \in todo :
          /\ key' = k
          /\ todo' = todo \ {k}
          /\ visited' = Append(visited, k)
    /\ col' = DockingCol
    /\ results' = EmptyFrame(DockingCol)
    /\ res_dict' = EmptyResDict(DockingCol)
    /\ prepares' = prepares + 1
    /\ attrs' = attrs \cup {"_key", "_col", "results", "_res_dict"}
    /\ xyz_dict' = NoXyz
    /\ pc' = "dock_build"
    /\ UNCHANGED <<cls, cfg, sel, sel_pairs, ts, frame, pidx, call, psi_vars,
                   err, direct, extra, calls, ens>>
    /\ UNCHANGED builds

\* Line 223: get_psi_mol(key, resid) is called with one argument, so the
\* first entry of the comprehension raises; an empty self._sel yields {}.
dock_single_system_build ==
    /\ pc = "dock_build"
    /\ IF "_sel" \notin attrs
       THEN Raise("AttributeError", 223) /\ pc' = "failed"
       ELSE IF sel # {}
       THEN Raise("TypeError", 223) /\ pc' = "failed"
       ELSE pc' = "dock_pairs" /\ UNCHANGED <<err, call>>
    /\ UNCHANGED <<cls, cfg, attrs, sel, sel_pairs, col, res_dict, results, ts,
                   frame, xyz_dict, pidx, psi_vars, direct, extra, calls>>
    /\ UNCHANGED dock_vars
    /\ UNCHANGED builds

\* Lines 224-225: self._sel_pairs is read (no line of DockingSAPT assigns it);
\* a first pair would look its keys up in the empty xyz_dict.
dock_single_system_pairs ==
    /\ pc = "dock_pairs"
    /\ IF "_sel_pairs" \notin attrs
       THEN Raise("AttributeError", 224) /\ pc' = "failed"
       ELSE IF Len(sel_pairs) > 0
       THEN Raise("KeyError", 225) /\ pc' = "failed"
       ELSE pc' = "poses" /\ UNCHANGED <<err, call>>
    /\ UNCHANGED <<cls, cfg, attrs, sel, sel_pairs, col, res_dict, results, ts,
                   frame, xyz_dict, pidx, psi_vars, direct, extra, calls>>
    /\ UNCHANGED dock_vars
    /\ UNCHANGED builds

\* Lines 253-254 and 237-239: the loop is exhausted and _conclude runs.
dock_conclude ==
    /\ pc = "poses"
    /\ todo = {}
    /\ IF "_col" \notin attrs
       THEN /\ Raise("AttributeError", 238)
            /\ pc' = "failed"
            /\ UNCHANGED results
       ELSE /\ results' = FillFrame(results, col, res_dict)
            /\ pc' = "concluded"
            /\ UNCHANGED <<err, call>>
    /\ UNCHANGED <<cls, cfg, attrs, sel, sel_pairs, col, res_dict, ts, frame,
                   xyz_dict, pidx, psi_vars, direct, extra, calls>>
    /\ UNCHANGED dock_vars
    /\ UNCHANGED builds

Next ==
    \/ TrajectorySAPT_init
    \/ run_prepare
    \/ run_next_frame
    \/ run_conclude
    \/ single_frame_build
    \/ single_frame_call
    \/ calc_SAPT_return
    \/ calc_SAPT_raise
    \/ single_frame_end
    \/ single_frame_again
    \/ DockingSAPT_init

Spec == Init /\ [][Next]_vars

\* DockingSAPT.__init__ cannot return (line 213), so run is examined on
\* instances whose attributes were assigned directly: _ens and the SAPT
\* attributes as __init__ assigns them, _sel and _sel_pairs present or not.
DockRunInit ==
    /\ cls = "DockingSAPT"
    /\ cfg \in {c \in DockingConfigs : c.mode \in {"merged", "separate"}}
    /\ sel_pairs \in PairLists
    /\ sel \in {{}, GetSelections(sel_pairs)}
    /\ \E given \in SUBSET {"_sel", "_sel_pairs"} :
          /\ attrs = {"_ens"} \cup SAPT_attrs \cup given
          /\ "_sel" \notin given => sel = {}
          /\ "_sel_pairs" \notin given => sel_pairs = <<>>
    /\ ens = cfg.poses
    /\ pc = "constructed"
    /\ col = <<>>
    /\ res_dict = [x \in {} |-> <<>>]
    /\ results = NoFrame
    /\ ts = 0
    /\ frame = 0
    /\ xyz_dict = NoXyz
    /\ pidx = 0
    /\ call = NoCall
    /\ psi_vars = [v \in Range(SaptVars) |-> 0]
    /\ err = NoError
    /\ direct = FALSE
    /\ extra = 0
    /\ calls = <<>>
    /\ key = 0
    /\ todo = {}
    /\ visited = <<>>
    /\ prepares = 0
    /\ builds = NoBuilds

DockNext ==
    \/ dock_run_start
    \/ dock_run_next
    \/ dock_single_system_build
    \/ dock_single_system_pairs
    \/ dock_conclude

DockRunSpec == DockRunInit /\ [][DockNext]_vars

\* ------------------------------------------------------------------ claims
NPairs == Len(cfg.pairs)
Rows(rd) == Len(rd["time"])
InTrajectoryRun == cls = "TrajectorySAPT" /\ pc \notin {"new", "init_failed", "constructed"}

\* C1: a completed TrajectorySAPT run yields a table of exactly F x P rows,
\* one per (frame, pair), row f*P+p carrying the label "<pair[0]>-<pair[1]>"
\* of the p-th configured pair and the time of frame f.
C1_OneRowPerFramePair ==
    (cls = "TrajectorySAPT" /\ pc = "concluded") =>
        /\ results.columns = TrajectoryCol
        /\ \A x \in Range(TrajectoryCol) : Len(results.data[x]) = cfg.nframes * NPairs
        /\ \A f \in 0..(cfg.nframes - 1) : \A p \in 1..NPairs :
              /\ results.data["residues"][f * NPairs + p] =
                    [first |-> cfg.pairs[p][1], sep |-> "-", second |-> cfg.pairs[p][2]]
              /\ results.data["time"][f * NPairs + p] = FrameTime(f)

C1_Witness ==
    /\ cls = "TrajectorySAPT"
    /\ pc = "concluded"
    /\ cfg.nframes = 2
    /\ NPairs = 2
    /\ cfg.pairs[1] # cfg.pairs[2]
    /\ cfg.pairs[1][1] # cfg.pairs[1][2]
    /\ Len(results.data["time"]) = 4

\* C2: in a DockingSAPT run the accumulator is reset only once, at the start
\* of the run, never between poses.
C2_ResetOncePerRun == prepares <= 1

\* C3: a failing geometry build or solver call of a TrajectorySAPT run leaves
\* every row appended so far in place, same values, same order.
C3_FailureKeepsRows ==
    [][(cls = "TrajectorySAPT" /\ pc' = "failed" /\ pc # "failed") =>
          (res_dict' = res_dict /\ results' = results)]_vars

C3_Witness ==
    /\ cls = "TrajectorySAPT"
    /\ pc = "failed"
    /\ err.kind = "SolverError"
    /\ ~direct
    /\ ts = 1
    /\ Rows(res_dict) >= 2

\* C4: a configuration error is raised by the constructor before anything is
\* computed: no frame or pose processed, no geometry, no solver call, no
\* table, not even an empty one.
ConfigurationInvalid ==
    \/ cls = "TrajectorySAPT" /\ cfg.type # "trajectory"
    \/ cls = "DockingSAPT" /\ cfg.type # "docking"
    \/ cls = "DockingSAPT" /\ cfg.mode \notin {"merged", "separate"}

C4_ConfigErrorBeforeComputation ==
    ConfigurationInvalid =>
        /\ pc \in {"new", "init_failed"}
        /\ pc = "init_failed" => err.line \in {146, 197, 208}
        /\ calls = <<>>
        /\ ~call.active
        /\ xyz_dict = NoXyz
        /\ frame = 0
        /\ visited = <<>>
        /\ attrs \cap {"results", "_res_dict", "_col", "_ts", "_key"} = {}
        /\ results = NoFrame

C4_Witness ==
    /\ cls = "DockingSAPT"
    /\ cfg.type = "docking"
    /\ cfg.mode = "bogus"
    /\ pc = "init_failed"
    /\ err.line = 208

\* C5: frames are taken once each in trajectory order and all pairs of a
\* frame are evaluated, in configured order, before the next frame: the i-th
\* solver call and the i-th row belong to frame (i-1) div P and pair
\* (i-1) mod P + 1, and the time column increases strictly from a row to the
\* row of the same pair one frame later.
C5_FrameThenPairOrder ==
    (InTrajectoryRun /\ extra = 0) =>
        /\ frame <= cfg.nframes
        /\ pc \in {"build", "pairs", "solver"} => ts = frame - 1
        /\ pc = "concluded" => frame = cfg.nframes
        /\ Len(calls) <= cfg.nframes * NPairs
        /\ Rows(res_dict) <= Len(calls)
        /\ \A i \in 1..Len(calls) :
              /\ calls[i].step = 5 + 10 * ((i - 1) \div NPairs)
              /\ calls[i].pair = cfg.pairs[((i - 1) % NPairs) + 1]
        /\ \A i \in 1..Rows(res_dict) :
              /\ res_dict["time"][i] = calls[i].step
              /\ res_dict["residues"][i].first = calls[i].pair[1]
              /\ res_dict["residues"][i].second = calls[i].pair[2]
        /\ \A i \in 1..(Rows(res_dict) - NPairs) :
              res_dict["time"][i] < res_dict["time"][i + NPairs]

C5_Witness ==
    /\ InTrajectoryRun
    /\ extra = 0
    /\ pc = "concluded"
    /\ cfg.nframes = 2
    /\ NPairs = 2
    /\ cfg.pairs[1] # cfg.pairs[2]
    /\ res_dict["time"] = <<5, 5, 15, 15>>

\* C6 as stated: once concluded, no operation the object offers changes the
\* result table or appends to it.
C6_FinalAfterConclude ==
    [][(cls = "TrajectorySAPT" /\ pc = "concluded") =>
          (results' = results /\ res_dict' = res_dict)]_vars

\* C6 amended: from conclusion until run is called again, results keeps the
\* rows it was concluded with; a further _single_frame step appends to the
\* accumulator only.
C6_FinalUntilNextRun ==
    [][(cls = "TrajectorySAPT" /\ (pc = "concluded" \/ direct) /\ pc' # "frames") =>
          results' = results]_vars

C6_Witness ==
    /\ cls = "TrajectorySAPT"
    /\ pc = "concluded"
    /\ direct
    /\ Rows(results.data) > 0
    /\ Rows(res_dict) > Rows(results.data)

\* C7: with a valid configuration the constructor succeeds, reads only
\* attributes that are already assigned, and leaves the pair list and a
\* selection for every key the pairs refer to, which the run never changes.
ConfigurationValid ==
    \/ cls = "TrajectorySAPT" /\ cfg.type = "trajectory"
    \/ cls = "DockingSAPT" /\ cfg.type = "docking" /\ cfg.mode \in {"merged", "separate"}

C7_ConstructedOnceFromConfig ==
    (ConfigurationValid /\ pc # "new") =>
        /\ pc # "init_failed"
        /\ {"_sel", "_sel_pairs"} \subseteq attrs
        /\ sel_pairs = cfg.pairs
        /\ sel = GetSelections(cfg.pairs)

\* C8: a DockingSAPT run that completes has entered _single_system exactly
\* once for every key of the ensemble.
C8_EveryPoseOnce ==
    (cls = "DockingSAPT" /\ pc = "concluded") =>
        /\ Len(visited) = Cardinality(ens)
        /\ Range(visited) = ens
        /\ \A i \in 1..Len(visited) : \A j \in 1..Len(visited) :
              visited[i] = visited[j] => i = j

C8_Witness ==
    /\ cls = "DockingSAPT"
    /\ pc = "concluded"
    /\ Cardinality(ens) = 2
    /\ Len(visited) = 2

\* C9: the text handed to the solver for pair (a, b) is the block built in
\* this step for a, the line "--", the block built in this step for b, and
\* the line "units angstrom".
C9_DimerText ==
    pc = "solver" =>
        LET a == cfg.pairs[pidx][1]
            b == cfg.pairs[pidx][2]
        IN /\ call.active
           /\ call.input = xyz_dict[a] \o << [text |-> "--"] >> \o xyz_dict[b]
                              \o << [text |-> "units angstrom"] >>
           /\ xyz_dict[a][2].z = ts
           /\ xyz_dict[b][2].z = ts

C9_Witness ==
    /\ pc = "solver"
    /\ cfg.pairs[pidx][1] # cfg.pairs[pidx][2]
    /\ ts = 1

\* C10: the five energy columns of every row are the five solver variables
\* of that row's own solver call, in the order total, electrostatic,
\* exchange, induction, dispersion, each times 627.509.
C10_LinearScaling ==
    InTrajectoryRun =>
      /\ Rows(res_dict) <= Len(calls)
      /\ \A i \in 1..Rows(res_dict) :
            LET native == Psi4Energy(calls[i].input)
            IN /\ res_dict["total"][i] = native["SAPT TOTAL ENERGY"] * 627509
               /\ res_dict["electrostatic"][i] = native["SAPT ELST ENERGY"] * 627509
               /\ res_dict["exchange"][i] = native["SAPT EXCH ENERGY"] * 627509
               /\ res_dict["induction"][i] = native["SAPT IND ENERGY"] * 627509
               /\ res_dict["dispersion"][i] = native["SAPT DISP ENERGY"] * 627509

C10_Witness ==
    /\ InTrajectoryRun
    /\ Rows(res_dict) = 2
    /\ res_dict["total"][1] # res_dict["total"][2]
    /\ res_dict["total"][2] # res_dict["electrostatic"][2] + res_dict["exchange"][2]
                               + res_dict["induction"][2] + res_dict["dispersion"][2]

\* C11: a failed solver call is not retried: within a run no two solver
\* invocations have the same position in the pair list and the same step,
\* and once an invocation has failed it is the last one of the run.
C11_NoRetry ==
    (InTrajectoryRun /\ extra = 0) =>
        /\ \A i \in 1..Len(calls) : \A j \in 1..Len(calls) :
              (calls[i].index = calls[j].index /\ calls[i].step = calls[j].step) => i = j
        /\ (pc = "failed" /\ err.kind = "SolverError") =>
              /\ ~call.active
              /\ Len(calls) = Rows(res_dict) + 1
              /\ calls[Len(calls)].index = pidx
              /\ calls[Len(calls)].step = 5 + 10 * ts

C11_Witness ==
    /\ InTrajectoryRun
    /\ extra = 0
    /\ pc = "failed"
    /\ err.kind = "SolverError"
    /\ Len(calls) = 3
    /\ cfg.pairs[1] = cfg.pairs[2]

\* C12: a failure inside an iteration step reaches the caller of the run, and
\* the error the caller sees names the pair label and the frame time (or
\* pose key) at which it occurred.
C12_ErrorCarriesContext ==
    (InTrajectoryRun /\ pc = "failed") =>
        /\ err.kind # "none"
        /\ {"pair", "step"} \subseteq DOMAIN err

\* C13: the solver's output is sent to a file exactly when save_output is
\* on, and the name passed for pair (a, b) at frame time i is
\* "sapt_<a>-<b>_<i>.out"; with saving off no invocation ever sets a file.
C13_OutputFile ==
    /\ pc = "solver" =>
          LET name == [prefix |-> "sapt_", first |-> cfg.pairs[pidx][1], sep |-> "-",
                       second |-> cfg.pairs[pidx][2], sep2 |-> "_",
                       step |-> 5 + 10 * ts, suffix |-> ".out"]
          IN /\ call.filename = name
             /\ call.output_file.set = cfg.save_output
             /\ call.output_file.set => call.output_file.name = name
    /\ \A i \in 1..Len(calls) : calls[i].output_file.set = cfg.save_output

C13_Witness ==
    /\ pc = "solver"
    /\ cfg.save_output
    /\ call.output_file.set
    /\ cfg.pairs[pidx][1] # cfg.pairs[pidx][2]
    /\ ts = 1

\* C14: in every frame the block of each selection key is built in that
\* frame, by one get_psi_mol call per key on the frame's coordinates, before
\* the first pair of the frame is evaluated; nothing is kept from an earlier
\* frame.
C14_GeometryFreshPerStep ==
    /\ pc = "build" =>
          /\ xyz_dict = NoXyz
          /\ builds = NoBuilds
          /\ ~call.active
          /\ ~direct => \A i \in 1..Len(calls) : calls[i].step # 5 + 10 * ts
    /\ pc \in {"pairs", "solver"} =>
          /\ DOMAIN xyz_dict = GetSelections(cfg.pairs)
          /\ DOMAIN builds = DOMAIN xyz_dict
          /\ \A k \in DOMAIN xyz_dict :
                /\ builds[k] = 1
                /\ xyz_dict[k] =
                      << [charge |-> k - 1, multiplicity |-> 1 + ((k - 1) % 2)],
                         [element |-> "C", x |-> 10 * k + ts, y |-> k, z |-> ts],
                         [element |-> "H", x |-> 10 * k + ts + 1, y |-> k, z |-> ts] >>

C14_Witness ==
    /\ pc = "solver"
    /\ ts = 1
    /\ ~direct
    /\ DOMAIN xyz_dict = {1, 2}
    /\ Rows(res_dict) >= 2

\* C15: solver invocations are strictly sequential: at most one invocation
\* has been started and has neither returned nor failed, and an invocation
\* is under way only after every earlier one has failed or has returned and
\* had its row appended.
InFlight ==
    Len(calls) - Rows(res_dict)
        - (IF pc = "failed" /\ err.kind = "SolverError" THEN 1 ELSE 0)

C15_OneInFlight ==
    InTrajectoryRun =>
        /\ InFlight \in {0, 1}
        /\ InFlight = 1 <=> pc = "solver"
        /\ call.active <=> pc = "solver"
        /\ pc = "solver" =>
              /\ call = calls[Len(calls)]
              /\ Rows(res_dict) = Len(calls) - 1
              /\ \A x \in Range(TrajectoryCol) : Len(res_dict[x]) = Len(calls) - 1

C15_Witness ==
    /\ InTrajectoryRun
    /\ pc = "solver"
    /\ Len(calls) = 4
    /\ Rows(res_dict) = 3

\* C16: row appends are atomic with respect to failures: at every point of a
\* run where a geometry build or a solver call can fail, and at every step
\* boundary, the seven column lists of the accumulator have the same length,
\* the number of solver invocations that returned since the last _prepare.
C16_AtomicRows ==
    InTrajectoryRun =>
        /\ DOMAIN res_dict = Range(TrajectoryCol)
        /\ \A x \in Range(TrajectoryCol) :
              Len(res_dict[x]) = Len(calls) - (IF call.active THEN 1 ELSE 0)
                  - (IF pc = "failed" /\ err.kind = "SolverError" THEN 1 ELSE 0)

C16_Witness ==
    /\ InTrajectoryRun
    /\ pc = "failed"
    /\ err.kind = "SolverError"
    /\ Len(calls) = 4
    /\ \A x \in Range(TrajectoryCol) : Len(res_dict[x]) = 3

\* C17: when the geometry build fails at frame index f of a TrajectorySAPT
\* run, no solver invocation has been issued for any pair of frame f and the
\* accumulator holds exactly f x P rows, P the number of configured pairs.
C17_BuildFailureSkipsFrame ==
    (InTrajectoryRun /\ ~direct /\ pc = "failed" /\ err.kind = "StructureError") =>
        /\ \A i \in 1..Len(calls) : calls[i].step # FrameTime(ts)
        /\ Len(calls) = ts * NPairs
        /\ \A x \in Range(TrajectoryCol) : Len(res_dict[x]) = ts * NPairs

C17_Witness ==
    /\ InTrajectoryRun
    /\ ~direct
    /\ pc = "failed"
    /\ err.kind = "StructureError"
    /\ ts = 1
    /\ NPairs = 2
    /\ Rows(res_dict) = 2

\* C18: results receives rows only in _conclude: in every state of a run from
\* _prepare until _conclude executes, results has the seven-column schema and
\* no rows, also when a failure has aborted the run with rows in the
\* accumulator.
C18_ResultsEmptyUntilConclude ==
    (InTrajectoryRun /\ ~direct
        /\ pc \in {"frames", "build", "pairs", "solver", "failed"}) =>
        /\ results.columns = <<"residues", "time", "total", "electrostatic",
                               "exchange", "induction", "dispersion">>
        /\ DOMAIN results.data = Range(results.columns)
        /\ \A x \in DOMAIN results.data : results.data[x] = <<>>

C18_Witness ==
    /\ InTrajectoryRun
    /\ ~direct
    /\ pc = "failed"
    /\ Rows(res_dict) = 3
    /\ \A x \in DOMAIN results.data : results.data[x] = <<>>

\* C19: a DockingSAPT run over an ensemble with zero poses completes without
\* error and concludes with an empty result table that has the fixed
\* seven-column schema.
C19_EmptyEnsembleConcludes ==
    (cls = "DockingSAPT" /\ ens = {} /\ pc \notin {"constructed", "poses"}) =>
        /\ pc = "concluded"
        /\ err = NoError
        /\ results.columns = DockingCol
        /\ \A x \in Range(DockingCol) : results.data[x] = <<>>

====
